---------------------------- MODULE Spec2Model ----------------------------
(***************************************************************************)
(* GreenTea soft-sub pipeline (src/greentea_auto.py): glyph collection,    *)
(* used-font extraction, TTC splitting, font resolution / subsetting into  *)
(* per-episode workspaces, and the process pool that runs the episodes.    *)
(*                                                                         *)
(* Text is modelled as sequences of Unicode code points (Python str).      *)
(* Four specifications share the module:                                   *)
(*   SpecChars   collect_chars_from_ass, run twice                         *)
(*   SpecFonts   extract_used_fonts_from_ass, line by line                 *)
(*   SpecSplit   split_ttc_to_ttfs on one container                        *)
(*   Spec        main's process pool running process_one_episode           *)
(***************************************************************************)
EXTENDS Integers, Sequences, FiniteSets, TLC

VARIABLES
    \* ---- collect_chars_from_ass (SpecChars) ----
    cc_pc,      \* "idle" | "files" | "lines" | "chars" | "done": loop position
    cc_file,    \* number of script files opened so far
    cc_line,    \* number of lines read in the current file
    cc_col,     \* number of characters read in the current line
    chars,      \* the local set `chars`
    blob,       \* text written to output_txt (sequence of code points)
    seen,       \* history: every code point read from the corpus in this run
    cc_run,     \* 1 or 2: which run of the collector this is
    blob1,      \* history: blob written by run 1
    seen1,      \* history: code points of the corpus read by run 1
    \* ---- extract_used_fonts_from_ass (SpecFonts) ----
    ef_pc,      \* "idle" | "scan" | "done"
    ef_left,    \* number of pieces of text the corpus still holds
    ef_styles,  \* history: <<first field, second field>> of the style lines read
    ef_args,    \* history: the arguments of the \fn directives read
    used,       \* the local set `used`
    \* ---- split_ttc_to_ttfs (SpecSplit) ----
    sp_pc,      \* "idle" | "open" | "loop" | "done" | "raised"
    ttc,        \* the container: [stem, parses, n] (n embedded fonts)
    sp_idx,     \* number of embedded fonts the loop has finished with
    sp_out,     \* the local list `out` (file names in out_dir)
    sp_dir,     \* out_dir: files [name, font]; font is the index of the embedded
                \* font the file holds, 0 for a file left truncated by a failed save
    sp_nameless, \* history, per entry of `out`: the font had no usable name record
    sp_failed,  \* history: number of embedded fonts whose save failed
    sp_last,    \* history: <<>> or <<[font, real, name]>>, the embedded font of
                \* the loop's latest turn, its `real` before line 126 and after
    \* ---- main / process_one_episode (Spec) ----
    pc,         \* per task: position in process_one_episode
    raws,       \* sorted(RAW_DIR.glob("*.mkv")): sequence of file stems
    maxWorkers, \* args.max_workers
    noFontSubset, \* args.no_font_subset
    assDir,     \* ASS_DIR: the lines of the subtitle scripts, in reading order
    fontsDir,   \* FONTS_DIR: set of files [stem, suffix, opens, records]
    fontsSub,   \* FONTS_SUBSET_DIR: episode id -> set of files [name, by, data];
                \* `by` is the task that wrote the file, 0 for an earlier run of main
    toUnlink,   \* per task: names listed by glob("*") still to unlink
    usedFonts,  \* per task: used_fonts
    fontList,   \* per task: files of sorted(fonts_dir.glob("*")) still to visit
    invoked,    \* per task: font files pyftsubset was run on
    skipped,    \* per task: font files reported [SKIP]
    muxSeen,    \* per task: names listed by glob("*subset*")'s directory scan
    attached,   \* per task: names given to mkvmerge --attach-file
    mainDone,   \* main printed its final line
    wrote,      \* history, per task: the files it wrote or unlinked,
                \* [op, dir, name, data]
    \* ---- subset_fonts on a pool, enumerated in two orders (SpecResolve) ----
    rs_pc,      \* "idle" | "loop" | "returned" | "raised"
    rs_pool,    \* fonts_dir: set of files [stem, suffix, opens, records]
    rs_used,    \* used_fonts
    rs_fails,   \* the font programs on which pyftsubset exits non-zero
    rs_list,    \* files of sorted(fonts_dir.glob("*")) still to visit
    rs_inc,     \* history: font programs for which `match` was true
    rs_exc,     \* history: font programs reported [SKIP]
    rs_run,     \* 1 or 2: which call of subset_fonts this is
    rs_inc1,    \* history: rs_inc of call 1
    rs_exc1     \* history: rs_exc of call 1

varsChars == <<cc_pc, cc_file, cc_line, cc_col, chars, blob, seen, cc_run, blob1, seen1>>
varsFonts == <<ef_pc, ef_left, ef_styles, ef_args, used>>
varsSplit == <<sp_pc, ttc, sp_idx, sp_out, sp_dir, sp_nameless, sp_failed, sp_last>>
varsEnv   == <<raws, maxWorkers, noFontSubset, assDir, fontsDir>>
varsMain  == <<pc, fontsSub, toUnlink, usedFonts, fontList, invoked, skipped,
               muxSeen, attached, mainDone, wrote>>
varsRes   == <<rs_pc, rs_pool, rs_used, rs_fails, rs_list, rs_inc, rs_exc, rs_run,
               rs_inc1, rs_exc1>>
vars == <<varsChars, varsFonts, varsSplit, varsEnv, varsMain, varsRes>>

-----------------------------------------------------------------------------
(* Bounds of the model *)

MaxFiles == 2
MaxLines == 2
MaxLineLen == 2

-----------------------------------------------------------------------------
(* Text helpers *)

\* str(s) code points used below:
\*   9 TAB  10 LF  32 SPACE  44 ','  45 '-'  46 '.'  47 '/'  48-57 '0'-'9'
\*   58 ':'  65-90 'A'-'Z'  92 '\'  95 '_'  97-122 'a'-'z'  125 '}'
\*   127 DEL  12288 IDEOGRAPHIC SPACE  20013 U+4E2D

Range(s) == {s[i] : i \in 1..Len(s)}

\* min(S) of a non-empty set of integers
SetMin(S) == CHOOSE x \in S : \A y \in S : x <= y

\* sorted(S): the elements of a set of integers in ascending order
RECURSIVE SortedSeq(_)
SortedSeq(S) ==
    IF S = {} THEN <<>>
    ELSE LET p == CHOOSE x \in S : TRUE
         IN  SortedSeq({y \in S : y < p}) \o <<p>> \o SortedSeq({y \in S : y > p})

\* a < b for two strings (lexicographic by code point)
StrLess(a, b) ==
    \E k \in 1..(Len(b)) :
        /\ k <= Len(a) + 1
        /\ SubSeq(a, 1, k - 1) = SubSeq(b, 1, k - 1)
        /\ (k = Len(a) + 1 \/ a[k] < b[k])

\* sorted(S) for a set of strings
RECURSIVE SortedStrs(_)
SortedStrs(S) ==
    IF S = {} THEN <<>>
    ELSE LET m == CHOOSE x \in S : \A y \in S : y = x \/ StrLess(x, y)
         IN  <<m>> \o SortedStrs(S \ {m})

-----------------------------------------------------------------------------
(* collect_chars_from_ass *)

\* Code points a subtitle line may hold in the model: two control characters,
\* both ends of the printable ASCII range, DEL and one ideograph.
CodePoints == {9, 31, 32, 126, 127, 20013}

\* `if ord(ch) >= 32`
KeepChar(ch) == ch >= 32

\* The range one short, range(0x20, 0x7E): "~" is left out
AsciiOffByOne == 32..125

\* range(0x20, 0x7F)
AsciiPrintable == 32..126

\* The order reversed: "".join(sorted(chars, reverse=True))
BlobDescending(S) ==
    LET a == SortedSeq(S) IN [i \in 1..Len(a) |-> a[Len(a) + 1 - i]]

\* "".join(sorted(chars))
BlobOf(S) == SortedSeq(S)

IdleChars ==
    /\ cc_pc = "idle" /\ cc_file = 0 /\ cc_line = 0 /\ cc_col = 0
    /\ chars = {} /\ blob = <<>> /\ seen = {} /\ cc_run = 0
    /\ blob1 = <<>> /\ seen1 = {}

InitCollect ==
    /\ cc_pc = "files" /\ cc_file = 0 /\ cc_line = 0 /\ cc_col = 0
    /\ chars = {} /\ blob = <<>> /\ seen = {} /\ cc_run = 1
    /\ blob1 = <<>> /\ seen1 = {}

\* `for ass in sorted(ass_dir.glob("*.ass"))`: another script file is opened
CollectNextFile ==
    /\ cc_pc = "files" /\ cc_file < MaxFiles
    /\ cc_file' = cc_file + 1 /\ cc_line' = 0 /\ cc_col' = 0
    /\ cc_pc' = "lines"
    /\ UNCHANGED <<chars, blob, seen, cc_run, blob1, seen1>>
    /\ UNCHANGED <<varsFonts, varsSplit, varsEnv, varsMain, varsRes>>

\* `for line in f`: another line is read
CollectNextLine ==
    /\ cc_pc = "lines" /\ cc_line < MaxLines
    /\ cc_line' = cc_line + 1 /\ cc_col' = 0
    /\ cc_pc' = "chars"
    /\ UNCHANGED <<cc_file, chars, blob, seen, cc_run, blob1, seen1>>
    /\ UNCHANGED <<varsFonts, varsSplit, varsEnv, varsMain, varsRes>>

\* `for line in f` is exhausted
CollectEndFile ==
    /\ cc_pc = "lines"
    /\ cc_pc' = "files"
    /\ UNCHANGED <<cc_file, cc_line, cc_col, chars, blob, seen, cc_run, blob1, seen1>>
    /\ UNCHANGED <<varsFonts, varsSplit, varsEnv, varsMain, varsRes>>

\* `for ch in line: if ord(ch) >= 32: chars.add(ch)`.  Run 2 reads a corpus
\* with the code points of run 1's corpus, in any arrangement.
CollectChar ==
    /\ cc_pc = "chars" /\ cc_col < MaxLineLen
    /\ \E ch \in (IF cc_run = 1 THEN CodePoints ELSE seen1) :
          /\ chars' = IF KeepChar(ch) THEN chars \cup {ch} ELSE chars
          /\ seen' = seen \cup {ch}
    /\ cc_col' = cc_col + 1
    /\ UNCHANGED <<cc_pc, cc_file, cc_line, blob, cc_run, blob1, seen1>>
    /\ UNCHANGED <<varsFonts, varsSplit, varsEnv, varsMain, varsRes>>

\* `for ch in line` is exhausted
CollectEndLine ==
    /\ cc_pc = "chars"
    /\ cc_pc' = "lines"
    /\ UNCHANGED <<cc_file, cc_line, cc_col, chars, blob, seen, cc_run, blob1, seen1>>
    /\ UNCHANGED <<varsFonts, varsSplit, varsEnv, varsMain, varsRes>>

\* The file loop is exhausted: add the ASCII range, write the sorted blob.
CollectWrite ==
    /\ cc_pc = "files"
    /\ cc_run = 2 => seen = seen1
    /\ chars' = chars \cup AsciiPrintable
    /\ blob' = BlobOf(chars')
    /\ cc_pc' = "done"
    /\ UNCHANGED <<cc_file, cc_line, cc_col, seen, cc_run, blob1, seen1>>
    /\ UNCHANGED <<varsFonts, varsSplit, varsEnv, varsMain, varsRes>>

\* The collector is called again on the same ASS_DIR (process_one_episode
\* calls it once per episode).
CollectRerun ==
    /\ cc_pc = "done" /\ cc_run = 1
    /\ cc_run' = 2 /\ blob1' = blob /\ seen1' = seen
    /\ cc_pc' = "files" /\ cc_file' = 0 /\ cc_line' = 0 /\ cc_col' = 0
    /\ chars' = {} /\ blob' = <<>> /\ seen' = {}
    /\ UNCHANGED <<varsFonts, varsSplit, varsEnv, varsMain, varsRes>>

NextChars ==
    \/ CollectNextFile \/ CollectNextLine \/ CollectEndFile
    \/ CollectChar \/ CollectEndLine \/ CollectWrite \/ CollectRerun

-----------------------------------------------------------------------------
(* extract_used_fonts_from_ass *)

\* Number of pieces of text (see Segs) in the whole corpus
MaxSegs == 5

HasPrefix(s, p) == Len(s) >= Len(p) /\ SubSeq(s, 1, Len(p)) = p

\* str.isspace(), which is also the class \s of a str pattern
IsSpace(c) ==
    \/ c \in 9..13 \/ c \in 28..32 \/ c = 133 \/ c = 160 \/ c = 5760
    \/ c \in 8192..8202 \/ c \in {8232, 8233, 8239, 8287, 12288}

\* str.strip()
Trim(s) ==
    LET keep == {i \in 1..Len(s) : ~IsSpace(s[i])}
    IN  IF keep = {} THEN <<>>
        ELSE SubSeq(s, SetMin(keep), CHOOSE j \in keep : \A k \in keep : k <= j)

\* "Style:"
StylePrefix == <<83, 116, 121, 108, 101, 58>>

\* "\fn"
FnTag == <<92, 102, 110>>

\* [^,]
NotComma(c) == c # 44

\* [^\\}]
NotStop(c) == c # 92 /\ c # 125

\* The indices of s whose character is outside [^,], outside [^\\}]
CommasOf(s) == {j \in 1..Len(s) : ~NotComma(s[j])}

StopsOf(s) == {j \in 1..Len(s) : ~NotStop(s[j])}

\* Last index of the longest run of characters of a class that starts at
\* index i (i - 1 when the run is empty), `outside` being the indices whose
\* character is not of the class: a greedy `[...]*` at i.
RunEnd(s, i, outside) ==
    LET stops == {j \in outside : j >= i}
    IN  IF stops = {} THEN Len(s) ELSE SetMin(stops) - 1

\* style_re.match(line): r"Style:\s*[^,]+,([^,]+)" anchored at the start of
\* the line.  `\s*[^,]+` consumes no comma, so the literal `,` is the first
\* comma after the prefix, with at least one character before it; the group
\* is the longest non-empty comma-free run after it.  The result is the set
\* {m.group(1)}, empty when there is no match.
StyleMatch(line) ==
    IF ~HasPrefix(line, StylePrefix) THEN {}
    ELSE LET p == Len(StylePrefix) + 1
             e == RunEnd(line, p, CommasOf(line))
             g == RunEnd(line, e + 2, CommasOf(line))
         IN  IF e >= p /\ e + 1 <= Len(line) /\ g >= e + 2
             THEN {SubSeq(line, e + 2, g)}
             ELSE {}

\* override_re.findall(line) from index i on: r"\\fn([^\\}]+)", leftmost
\* matches, scanning on after the end of each match.
RECURSIVE FindOverrides(_, _)
FindOverrides(line, i) ==
    IF i + 3 > Len(line) THEN {}
    ELSE IF SubSeq(line, i, i + 2) = FnTag /\ NotStop(line[i + 3])
         THEN LET e == RunEnd(line, i + 3, StopsOf(line))
              IN  {SubSeq(line, i + 3, e)} \cup FindOverrides(line, e + 1)
         ELSE FindOverrides(line, i + 1)

\* The loop body without the two .strip() calls
ExtractLineNoStrip(line) == StyleMatch(line) \cup FindOverrides(line, 1)

\* The loop body for one line: what the line adds to `used`.
ExtractLine(line) ==
    {Trim(g) : g \in StyleMatch(line)} \cup {Trim(fn) : fn \in FindOverrides(line, 1)}

\* ---- the lines the model reads ----

\* Pieces a line is put together from: "Style:", "\fn", "A", "a", " ", ",", "}"
Segs == {StylePrefix, FnTag, <<65>>, <<97>>, <<32>>, <<44>>, <<125>>}

RECURSIVE Flatten(_)
Flatten(ss) == IF ss = <<>> THEN <<>> ELSE Head(ss) \o Flatten(Tail(ss))

\* How a line ends as `for line in f` yields it: with "\n", or with nothing
\* when it is the last line of a file that has no final newline.
LineEnds == {<<10>>, <<>>}

\* ---- the line in the words of the style/override rules ----

\* line.split(","): the comma-delimited fields of a line
RECURSIVE Fields(_)
Fields(s) ==
    LET cs == {j \in 1..Len(s) : s[j] = 44}
    IN  IF cs = {} THEN <<s>>
        ELSE LET k == SetMin(cs)
             IN  <<SubSeq(s, 1, k - 1)>> \o Fields(SubSeq(s, k + 1, Len(s)))

\* A style-declaration line (it starts with "Style:") that has a second
\* comma-delimited field: <<its first field after "Style:", its second field>>.
StyleFields(line) ==
    IF HasPrefix(line, StylePrefix) /\ Len(Fields(line)) >= 2
    THEN {<<SubSeq(Fields(line)[1], Len(StylePrefix) + 1, Len(Fields(line)[1])),
            Fields(line)[2]>>}
    ELSE {}

\* The argument of every \fn directive of the line: the text after the tag
\* up to the next backslash, closing brace or the end of the line.
OverrideArgs(line) ==
    LET at == {i \in 1..Len(line) : i + 2 <= Len(line) /\ SubSeq(line, i, i + 2) = FnTag}
        stopAt(i) == LET st == {j \in (i + 3)..Len(line) : line[j] \in {92, 125}}
                     IN  IF st = {} THEN Len(line) + 1 ELSE SetMin(st)
    IN  {SubSeq(line, i + 3, stopAt(i) - 1) : i \in at}

IdleFonts ==
    /\ ef_pc = "idle" /\ ef_left = 0 /\ ef_styles = {} /\ ef_args = {} /\ used = {}

InitExtract ==
    /\ ef_pc = "scan" /\ ef_left = MaxSegs /\ ef_styles = {} /\ ef_args = {} /\ used = {}

\* One turn of `for line in f` (over all files): the line's style font and
\* override fonts are added to `used`.
ExtractReadLine ==
    /\ ef_pc = "scan"
    /\ \E n \in 0..ef_left :
          \E f \in [1..n -> Segs], end \in LineEnds :
             LET line == Flatten(f) \o end
             IN  /\ used' = used \cup ExtractLine(line)
                 /\ ef_styles' = ef_styles \cup StyleFields(line)
                 /\ ef_args' = ef_args \cup OverrideArgs(line)
                 /\ ef_left' = ef_left - n
    /\ UNCHANGED ef_pc
    /\ UNCHANGED <<varsChars, varsSplit, varsEnv, varsMain, varsRes>>

\* The loops are exhausted: `return used`
ExtractReturn ==
    /\ ef_pc = "scan"
    /\ ef_pc' = "done"
    /\ UNCHANGED <<ef_left, ef_styles, ef_args, used>>
    /\ UNCHANGED <<varsChars, varsSplit, varsEnv, varsMain, varsRes>>

NextFonts == ExtractReadLine \/ ExtractReturn

-----------------------------------------------------------------------------
(* split_ttc_to_ttfs *)

MaxEmbedded == 2
MaxNameLen == 2

\* Code points a name record may hold in the model: 'A', ' ', '/'
NameChars == {65, 32, 47}

NameTexts == UNION {[1..n -> NameChars] : n \in 0..MaxNameLen}

\* What name_table.getName(...) gives: None (present = FALSE), or a record
\* whose toStr() returns `text` or, when decodes = FALSE, raises.
NameRecords ==
    {[present |-> FALSE, decodes |-> TRUE, text |-> <<>>],
     [present |-> TRUE, decodes |-> FALSE, text |-> <<>>]}
    \cup {[present |-> TRUE, decodes |-> TRUE, text |-> t] : t \in NameTexts}

\* One font of ttc.fonts: its PostScript-name and Full-name records
\* (nameID 6 and 4 at platform 3, encoding 1, language 1033).
EmbeddedFonts == [ps : NameRecords, full : NameRecords]

\* font.save(out_path): the file is written; or save raises, before the file
\* was opened or after it was opened for writing and left truncated.
SaveOutcomes == {"saved", "failed", "failedTruncated"}

\* Stems of the container files
TtcStems == {<<84>>, <<84, 32, 84>>}

\* "_unknown"
UnknownSuffix == <<95, 117, 110, 107, 110, 111, 119, 110>>

\* ".ttf"
TtfSuffix == <<46, 116, 116, 102>>

\* [A-Za-z0-9._-]
NameCharAllowed(c) ==
    c \in 65..90 \/ c \in 97..122 \/ c \in 48..57 \/ c \in {46, 95, 45}

\* The indices of s whose character is of the class
AllowedOf(s) == {j \in 1..Len(s) : NameCharAllowed(s[j])}

\* re.sub(r"[^A-Za-z0-9._-]+", "_", real): every maximal run of characters
\* outside the class becomes one underscore.
RECURSIVE Sanitize(_)
Sanitize(real) ==
    IF real = <<>> THEN <<>>
    ELSE IF NameCharAllowed(real[1]) THEN <<real[1]>> \o Sanitize(Tail(real))
    ELSE <<95>> \o Sanitize(SubSeq(real, RunEnd(real, 1, AllowedOf(real)) + 1, Len(real)))

\* `if ps: ... elif full: ...`: a NameRecord object is truthy whenever
\* getName returned one, whatever its text.  TRUE when the toStr() call the
\* branch makes raises.
NameRaises(font) ==
    IF font.ps.present THEN ~font.ps.decodes
    ELSE font.full.present /\ ~font.full.decodes

\* The value of `real` before sanitizing (lines 119-124).
RealName(font, stem) ==
    IF font.ps.present THEN font.ps.text
    ELSE IF font.full.present THEN font.full.text
    ELSE stem \o UnknownSuffix

\* out_path.name
OutName(font, stem) == Sanitize(RealName(font, stem)) \o TtfSuffix

\* A record the naming rule can use: present, decodable and not empty.
Usable(rec) == rec.present /\ rec.decodes /\ rec.text # <<>>

\* out_dir after a file `name` holding `content` was written
WriteFile(dir, name, content) ==
    {f \in dir : f.name # name} \cup {[name |-> name, font |-> content]}

InitSplit ==
    /\ sp_pc = "open"
    /\ ttc \in [stem : TtcStems, parses : BOOLEAN, n : 0..MaxEmbedded]
    /\ sp_idx = 0 /\ sp_out = <<>> /\ sp_dir = {}
    /\ sp_nameless = <<>> /\ sp_failed = 0 /\ sp_last = <<>>

\* `ttc = TTCollection(str(ttc_path))` raised: `return out`
SplitOpenFails ==
    /\ sp_pc = "open" /\ ~ttc.parses
    /\ sp_pc' = "done"
    /\ UNCHANGED <<ttc, sp_idx, sp_out, sp_dir, sp_nameless, sp_failed, sp_last>>
    /\ UNCHANGED <<varsChars, varsFonts, varsEnv, varsMain, varsRes>>

\* The container was parsed
SplitOpen ==
    /\ sp_pc = "open" /\ ttc.parses
    /\ sp_pc' = "loop"
    /\ UNCHANGED <<ttc, sp_idx, sp_out, sp_dir, sp_nameless, sp_failed, sp_last>>
    /\ UNCHANGED <<varsChars, varsFonts, varsEnv, varsMain, varsRes>>

\* One turn of `for font in ttc.fonts` in which a toStr() call raises: the
\* exception leaves split_ttc_to_ttfs (the call is outside the try).
SplitFontRaises ==
    /\ sp_pc = "loop" /\ sp_idx < ttc.n
    /\ \E font \in EmbeddedFonts : NameRaises(font)
    /\ sp_pc' = "raised"
    /\ UNCHANGED <<ttc, sp_idx, sp_out, sp_dir, sp_nameless, sp_failed, sp_last>>
    /\ UNCHANGED <<varsChars, varsFonts, varsEnv, varsMain, varsRes>>

\* One turn of `for font in ttc.fonts`: name the font, save it.
SplitFont ==
    /\ sp_pc = "loop" /\ sp_idx < ttc.n
    /\ \E font \in EmbeddedFonts, outcome \in SaveOutcomes :
          /\ ~NameRaises(font)
          /\ sp_last' = <<[font |-> font, real |-> RealName(font, ttc.stem),
                           name |-> Sanitize(RealName(font, ttc.stem))]>>
          /\ LET name == OutName(font, ttc.stem)
             IN  CASE outcome = "saved" ->
                        /\ sp_dir' = WriteFile(sp_dir, name, sp_idx + 1)
                        /\ sp_out' = Append(sp_out, name)
                        /\ sp_nameless' = Append(sp_nameless,
                                             ~Usable(font.ps) /\ ~Usable(font.full))
                        /\ UNCHANGED sp_failed
                  [] outcome = "failed" ->
                        /\ sp_failed' = sp_failed + 1
                        /\ UNCHANGED <<sp_dir, sp_out, sp_nameless>>
                  [] outcome = "failedTruncated" ->
                        /\ sp_dir' = WriteFile(sp_dir, name, 0)
                        /\ sp_failed' = sp_failed + 1
                        /\ UNCHANGED <<sp_out, sp_nameless>>
    /\ sp_idx' = sp_idx + 1
    /\ UNCHANGED <<sp_pc, ttc>>
    /\ UNCHANGED <<varsChars, varsFonts, varsEnv, varsMain, varsRes>>

\* The loop is exhausted: `return out`
SplitReturn ==
    /\ sp_pc = "loop" /\ sp_idx = ttc.n
    /\ sp_pc' = "done"
    /\ UNCHANGED <<ttc, sp_idx, sp_out, sp_dir, sp_nameless, sp_failed, sp_last>>
    /\ UNCHANGED <<varsChars, varsFonts, varsEnv, varsMain, varsRes>>

NextSplit ==
    \/ SplitOpenFails \/ SplitOpen \/ SplitFontRaises \/ SplitFont \/ SplitReturn

-----------------------------------------------------------------------------
(* main and process_one_episode *)

\* Number of raw videos in RAW_DIR
MaxRaws == 2

\* MAX_WORKERS, the default of --max-workers
MAX_WORKERS == 2

\* \d and \w of a str pattern, for the characters the model uses: ASCII
\* digits; ASCII letters and digits, '_' and the CJK unified ideographs.
IsDigit(c) == c \in 48..57

IsWord(c) ==
    c \in 48..57 \/ c \in 65..90 \/ c \in 97..122 \/ c = 95 \/ c \in 19968..40959

\* \b holds in front of index i (1..Len(s)+1) when exactly one of the
\* characters on its two sides is a word character.
WordAt(s, i) == i >= 1 /\ i <= Len(s) /\ IsWord(s[i])

Boundary(s, i) == WordAt(s, i - 1) # WordAt(s, i)

\* The places <<start, length>> at which r"\b(\d{2,3})\b" matches
EpisodeMatches(name) ==
    {m \in (1..Len(name)) \X {2, 3} :
        /\ m[1] + m[2] - 1 <= Len(name)
        /\ \A k \in m[1]..(m[1] + m[2] - 1) : IsDigit(name[k])
        /\ Boundary(name, m[1])
        /\ Boundary(name, m[1] + m[2])}

\* guess_episode_number: the leftmost match (zfill(2) leaves two or three
\* digits as they are), "01" when there is none.
GuessEpisodeNumber(name) ==
    LET ms == EpisodeMatches(name)
    IN  IF ms = {} THEN <<48, 49>>
        ELSE LET start == SetMin({m[1] : m \in ms})
                 len == IF <<start, 3>> \in ms THEN 3 ELSE 2
             IN  SubSeq(name, start, start + len - 1)

\* ---- the directories main works on ----

\* Stems of the raw videos: "01", "02", "ep1", "ep2"
RawStems == {<<48, 49>>, <<48, 50>>, <<101, 112, 49>>, <<101, 112, 50>>}

\* "Style: D,A\n" and "{\fnB}a\n"
StyleLineA == <<83, 116, 121, 108, 101, 58, 32, 68, 44, 65, 10>>

OverrideLineB == <<123, 92, 102, 110, 66, 125, 97, 10>>

\* "{\fn }a\n": an override whose argument is blank
BlankOverrideLine == <<123, 92, 102, 110, 32, 125, 97, 10>>

\* The corpora of ASS_DIR: they use no font, "A", "B", both, or "B" and ""
AssDirs ==
    {<<>>, <<StyleLineA>>, <<OverrideLineB>>, <<StyleLineA, OverrideLineB>>,
     <<OverrideLineB, BlankOverrideLine>>}

\* ".ttf", ".OTF", ".ttc" (".ttf" is TtfSuffix)
OtfUpperSuffix == <<46, 79, 84, 70>>

TtcSuffix == <<46, 116, 116, 99>>

Rec(text) == [decodes |-> TRUE, text |-> text]

BadRec == [decodes |-> FALSE, text |-> <<>>]

\* A.ttf, whose name records are "A" and "A B"
FontA == [stem |-> <<65>>, suffix |-> TtfSuffix, opens |-> TRUE,
          records |-> <<Rec(<<65>>), Rec(<<65, 32, 66>>)>>]

\* B.OTF, whose name records are an undecodable one, "B" and ""
FontB == [stem |-> <<66>>, suffix |-> OtfUpperSuffix, opens |-> TRUE,
          records |-> <<BadRec, Rec(<<66>>), Rec(<<>>)>>]

\* C.ttf, whose name records are "a" and "AB": near misses of "A" and "B"
FontC == [stem |-> <<67>>, suffix |-> TtfSuffix, opens |-> TRUE,
          records |-> <<Rec(<<97>>), Rec(<<65, 66>>)>>]

\* T.ttc, a container left in FONTS_DIR: TTFont() raises on it
FontT == [stem |-> <<84>>, suffix |-> TtcSuffix, opens |-> FALSE, records |-> <<>>]

\* X.ttf, which is no font file: TTFont() raises on it
FontX == [stem |-> <<88>>, suffix |-> TtfSuffix, opens |-> FALSE, records |-> <<>>]

SampleFonts == {FontA, FontB, FontC, FontT, FontX}

\* "chars.txt", ".subset", "subset"
CharsTxt == <<99, 104, 97, 114, 115, 46, 116, 120, 116>>

SubsetMarker == <<46, 115, 117, 98, 115, 101, 116>>

SubsetPattern == <<115, 117, 98, 115, 101, 116>>

\* What an earlier run of main left in a workspace: chars.txt, Z.subset.ttf
StaleFiles ==
    {[name |-> CharsTxt, by |-> 0, data |-> <<>>],
     [name |-> <<90>> \o SubsetMarker \o TtfSuffix, by |-> 0, data |-> <<>>]}

\* ---- the functions process_one_episode calls ----

\* extract_used_fonts_from_ass(ASS_DIR)
ExtractUsedFonts(lines) == UNION {ExtractLine(lines[k]) : k \in 1..Len(lines)}

\* The text collect_chars_from_ass(ASS_DIR, ...) writes
CollectChars(lines) ==
    BlobOf({c \in UNION {Range(lines[k]) : k \in 1..Len(lines)} : KeepChar(c)}
           \cup AsciiPrintable)

\* The names a loop would give that stops at the first record whose toStr()
\* raises (one try around the whole loop)
NamesUntilBadRecord(file) ==
    IF ~file.opens THEN {}
    ELSE {file.records[k].text :
            k \in {j \in 1..Len(file.records) :
                     /\ \A h \in 1..j : file.records[h].decodes
                     /\ file.records[j].text # <<>>}}

\* get_font_internal_names: {} when TTFont() or font["name"] raises, else
\* the non-empty texts of the records whose toStr() does not raise.
GetFontInternalNames(file) ==
    IF ~file.opens THEN {}
    ELSE {file.records[k].text :
            k \in {j \in 1..Len(file.records) :
                     file.records[j].decodes /\ file.records[j].text # <<>>}}

\* str.lower() on ASCII letters
Lower(s) == [k \in 1..Len(s) |-> IF s[k] \in 65..90 THEN s[k] + 32 ELSE s[k]]

\* `font_path.suffix.lower() in (".ttf", ".otf")`
IsFontSuffix(file) == Lower(file.suffix) \in {TtfSuffix, <<46, 111, 116, 102>>}

\* `any(name in used_fonts for name in internal_names)`
Matches(file, used_fonts) ==
    \E name \in GetFontInternalNames(file) : name \in used_fonts

FileName(file) == file.stem \o file.suffix

\* sorted(fonts_dir.glob("*"))
SortedFiles(dir) ==
    LET names == SortedStrs({FileName(f) : f \in dir})
    IN  [k \in 1..Len(names) |-> CHOOSE f \in dir : FileName(f) = names[k]]

\* f"{font_path.stem}.subset{font_path.suffix}"
SubsetName(file) == file.stem \o SubsetMarker \o file.suffix

\* A clearing scan that would list only chars.txt
GlobCharsOnly(names) == {n \in names : n = CharsTxt}

\* episode_font_dir.glob("*"): every entry of the directory scan
GlobAll(names) == names

\* A scan for "*subset": the names that end with "subset"
GlobSubsetAtEnd(names) ==
    {n \in names :
        /\ Len(n) >= Len(SubsetPattern)
        /\ SubSeq(n, Len(n) - Len(SubsetPattern) + 1, Len(n)) = SubsetPattern}

\* fonts_subset_dir.glob("*subset*"): the entries whose name holds "subset"
GlobSubset(names) ==
    {n \in names :
        \E k \in 1..(Len(n) - Len(SubsetPattern) + 1) :
            SubSeq(n, k, k + Len(SubsetPattern) - 1) = SubsetPattern}

Tasks == 1..Len(raws)

\* A scan that would read only the script of the task's own episode
ScriptsOfEpisode(i) == IF i <= Len(assDir) THEN <<assDir[i]>> ELSE <<>>

\* The scripts process_one_episode scans for task i: all of ASS_DIR
ScriptsFor(i) == assDir

\* FONTS_DIR, WORK_DIR, OUT_DIR
FontsDirPath == <<"fonts">>

WorkDirPath == <<"work">>

OutDirPath == <<"out">>

\* A workspace that would be the pool directory itself
PoolAsWorkspace(i) == <<"fonts">>

\* episode_font_dir of task i: FONTS_SUBSET_DIR / f"E{ep}"
WorkspaceOf(i) == <<"fonts_sub", GuessEpisodeNumber(raws[i])>>

\* f"{raw_path.stem}_encoded.mkv"
EncodedName(i) ==
    raws[i] \o <<95, 101, 110, 99, 111, 100, 101, 100, 46, 109, 107, 118>>

\* build_final_filename(ep, sub_count), its fixed tags left out: "[ep].mkv"
FinalName(i) == <<91>> \o GuessEpisodeNumber(raws[i]) \o <<93, 46, 109, 107, 118>>

\* `ep` of task i; its workspace is FONTS_SUBSET_DIR / f"E{ep}"
EpOf(i) == GuessEpisodeNumber(raws[i])

\* A worker that would keep its slot after its episode raised
ActiveOrFailed(i) ==
    pc[i] \in {"clear", "subset", "encode", "failedUnlink", "failedSubset", "failedEncode"}

\* Task i occupies a worker of the pool
Active(i) == pc[i] \in {"clear", "subset", "encode"}

Ended(i) == pc[i] \in {"done", "failedUnlink", "failedSubset", "failedEncode"}

NamesIn(dir) == {f.name : f \in dir}

InitMain ==
    /\ raws \in {SortedStrs(S) : S \in {T \in SUBSET RawStems :
                                          Cardinality(T) \in 1..MaxRaws}}
    /\ maxWorkers \in 1..MAX_WORKERS
    /\ noFontSubset \in BOOLEAN
    /\ assDir \in AssDirs
    /\ fontsDir = SampleFonts
    /\ \E stale \in {{}, StaleFiles} :
          fontsSub = [e \in {GuessEpisodeNumber(raws[i]) : i \in 1..Len(raws)} |-> stale]
    /\ pc = [i \in 1..Len(raws) |-> "queued"]
    /\ toUnlink = [i \in 1..Len(raws) |-> {}]
    /\ usedFonts = [i \in 1..Len(raws) |-> {}]
    /\ fontList = [i \in 1..Len(raws) |-> <<>>]
    /\ invoked = [i \in 1..Len(raws) |-> {}]
    /\ skipped = [i \in 1..Len(raws) |-> {}]
    /\ muxSeen = [i \in 1..Len(raws) |-> {}]
    /\ attached = [i \in 1..Len(raws) |-> {}]
    /\ mainDone = FALSE
    /\ wrote = [i \in 1..Len(raws) |-> {}]

\* A pool worker takes the next submitted task: process_one_episode up to
\* the directory scan of `episode_font_dir.glob("*")` (lines 317-325).
Start(i) ==
    /\ pc[i] = "queued"
    /\ \A j \in 1..(i - 1) : pc[j] # "queued"
    /\ Cardinality({j \in Tasks : Active(j)}) < maxWorkers
    /\ toUnlink' = [toUnlink EXCEPT ![i] = GlobAll(NamesIn(fontsSub[EpOf(i)]))]
    /\ pc' = [pc EXCEPT ![i] = "clear"]
    /\ UNCHANGED <<fontsSub, usedFonts, fontList, invoked, skipped, muxSeen,
                   attached, mainDone>>
    /\ UNCHANGED wrote
    /\ UNCHANGED <<varsChars, varsFonts, varsSplit, varsEnv, varsRes>>

\* `old.unlink()` for one listed entry, in directory-scan order
Unlink(i) ==
    /\ pc[i] = "clear"
    /\ \E n \in toUnlink[i] :
          /\ n \in NamesIn(fontsSub[EpOf(i)])
          /\ fontsSub' = [fontsSub EXCEPT ![EpOf(i)] = {f \in @ : f.name # n}]
          /\ toUnlink' = [toUnlink EXCEPT ![i] = @ \ {n}]
          /\ wrote' = [wrote EXCEPT ![i] =
                          @ \cup {[op |-> "unlink", dir |-> WorkspaceOf(i), name |-> n,
                                   data |-> <<>>]}]
    /\ UNCHANGED <<pc, usedFonts, fontList, invoked, skipped, muxSeen, attached,
                   mainDone>>
    /\ UNCHANGED <<varsChars, varsFonts, varsSplit, varsEnv, varsRes>>

\* `old.unlink()` raises FileNotFoundError: the entry is gone
UnlinkMissing(i) ==
    /\ pc[i] = "clear"
    /\ \E n \in toUnlink[i] : n \notin NamesIn(fontsSub[EpOf(i)])
    /\ pc' = [pc EXCEPT ![i] = "failedUnlink"]
    /\ UNCHANGED <<fontsSub, toUnlink, usedFonts, fontList, invoked, skipped,
                   muxSeen, attached, mainDone>>
    /\ UNCHANGED wrote
    /\ UNCHANGED <<varsChars, varsFonts, varsSplit, varsEnv, varsRes>>

\* --no-font-subset: lines 329-333 are skipped
SkipFontSubset(i) ==
    /\ pc[i] = "clear" /\ toUnlink[i] = {} /\ noFontSubset
    /\ pc' = [pc EXCEPT ![i] = "encode"]
    /\ UNCHANGED <<fontsSub, toUnlink, usedFonts, fontList, invoked, skipped,
                   muxSeen, attached, mainDone>>
    /\ UNCHANGED wrote
    /\ UNCHANGED <<varsChars, varsFonts, varsSplit, varsEnv, varsRes>>

\* Lines 330-332 and subset_fonts up to its listing of fonts_dir: the used
\* fonts are extracted, chars.txt is written, the pool is listed.
Collect(i) ==
    /\ pc[i] = "clear" /\ toUnlink[i] = {} /\ ~noFontSubset
    /\ usedFonts' = [usedFonts EXCEPT ![i] = ExtractUsedFonts(ScriptsFor(i))]
    /\ fontsSub' = [fontsSub EXCEPT ![EpOf(i)] =
                      {f \in @ : f.name # CharsTxt}
                      \cup {[name |-> CharsTxt, by |-> i,
                             data |-> CollectChars(ScriptsFor(i))]}]
    /\ fontList' = [fontList EXCEPT ![i] = SortedFiles(fontsDir)]
    /\ pc' = [pc EXCEPT ![i] = "subset"]
    /\ UNCHANGED <<toUnlink, invoked, skipped, muxSeen, attached, mainDone>>
    /\ wrote' = [wrote EXCEPT ![i] =
                  @ \cup {[op |-> "write", dir |-> WorkspaceOf(i), name |-> CharsTxt,
                           data |-> CollectChars(ScriptsFor(i))]}]
    /\ UNCHANGED <<varsChars, varsFonts, varsSplit, varsEnv, varsRes>>

\* One turn of the loop of subset_fonts: not a .ttf/.otf file, `continue`
SubsetOther(i) ==
    /\ pc[i] = "subset" /\ fontList[i] # <<>>
    /\ ~IsFontSuffix(Head(fontList[i]))
    /\ fontList' = [fontList EXCEPT ![i] = Tail(@)]
    /\ UNCHANGED <<pc, fontsSub, toUnlink, usedFonts, invoked, skipped, muxSeen,
                   attached, mainDone>>
    /\ UNCHANGED wrote
    /\ UNCHANGED <<varsChars, varsFonts, varsSplit, varsEnv, varsRes>>

\* One turn of the loop: no internal name is used, [SKIP] and `continue`
SubsetUnused(i) ==
    /\ pc[i] = "subset" /\ fontList[i] # <<>>
    /\ IsFontSuffix(Head(fontList[i]))
    /\ ~Matches(Head(fontList[i]), usedFonts[i])
    /\ skipped' = [skipped EXCEPT ![i] = @ \cup {Head(fontList[i])}]
    /\ fontList' = [fontList EXCEPT ![i] = Tail(@)]
    /\ UNCHANGED <<pc, fontsSub, toUnlink, usedFonts, invoked, muxSeen, attached,
                   mainDone>>
    /\ UNCHANGED wrote
    /\ UNCHANGED <<varsChars, varsFonts, varsSplit, varsEnv, varsRes>>

\* One turn of the loop: pyftsubset runs and writes the subset; it reads
\* --text-file, so chars.txt has to be there.
SubsetRuns(i) ==
    /\ pc[i] = "subset" /\ fontList[i] # <<>>
    /\ IsFontSuffix(Head(fontList[i]))
    /\ Matches(Head(fontList[i]), usedFonts[i])
    /\ CharsTxt \in NamesIn(fontsSub[EpOf(i)])
    /\ invoked' = [invoked EXCEPT ![i] = @ \cup {Head(fontList[i])}]
    /\ fontsSub' = [fontsSub EXCEPT ![EpOf(i)] =
                      {f \in @ : f.name # SubsetName(Head(fontList[i]))}
                      \cup {[name |-> SubsetName(Head(fontList[i])), by |-> i,
                             data |-> FileName(Head(fontList[i]))]}]
    /\ fontList' = [fontList EXCEPT ![i] = Tail(@)]
    /\ UNCHANGED <<pc, toUnlink, usedFonts, skipped, muxSeen, attached, mainDone>>
    /\ wrote' = [wrote EXCEPT ![i] =
                  @ \cup {[op |-> "write", dir |-> WorkspaceOf(i),
                           name |-> SubsetName(Head(fontList[i])),
                           data |-> FileName(Head(fontList[i]))]}]
    /\ UNCHANGED <<varsChars, varsFonts, varsSplit, varsEnv, varsRes>>

\* One turn of the loop: pyftsubset exits non-zero, subprocess.run(check=True)
\* raises CalledProcessError, which leaves subset_fonts and the episode.
SubsetToolFails(i) ==
    /\ pc[i] = "subset" /\ fontList[i] # <<>>
    /\ IsFontSuffix(Head(fontList[i]))
    /\ Matches(Head(fontList[i]), usedFonts[i])
    /\ invoked' = [invoked EXCEPT ![i] = @ \cup {Head(fontList[i])}]
    /\ pc' = [pc EXCEPT ![i] = "failedSubset"]
    /\ UNCHANGED <<fontsSub, toUnlink, usedFonts, fontList, skipped, muxSeen,
                   attached, mainDone>>
    /\ UNCHANGED wrote
    /\ UNCHANGED <<varsChars, varsFonts, varsSplit, varsEnv, varsRes>>

\* The loop of subset_fonts is exhausted
SubsetReturn(i) ==
    /\ pc[i] = "subset" /\ fontList[i] = <<>>
    /\ pc' = [pc EXCEPT ![i] = "encode"]
    /\ UNCHANGED <<fontsSub, toUnlink, usedFonts, fontList, invoked, skipped,
                   muxSeen, attached, mainDone>>
    /\ UNCHANGED wrote
    /\ UNCHANGED <<varsChars, varsFonts, varsSplit, varsEnv, varsRes>>

\* encode_episode raises RuntimeError
EncodeFails(i) ==
    /\ pc[i] = "encode"
    /\ pc' = [pc EXCEPT ![i] = "failedEncode"]
    /\ UNCHANGED <<fontsSub, toUnlink, usedFonts, fontList, invoked, skipped,
                   muxSeen, attached, mainDone>>
    /\ UNCHANGED wrote
    /\ UNCHANGED <<varsChars, varsFonts, varsSplit, varsEnv, varsRes>>

\* encode_episode returns and mux_episode builds the mkvmerge command: it
\* scans the workspace and attaches what glob("*subset*") yields.
EncodeAndMux(i) ==
    /\ pc[i] = "encode"
    /\ muxSeen' = [muxSeen EXCEPT ![i] = NamesIn(fontsSub[EpOf(i)])]
    /\ attached' = [attached EXCEPT ![i] = GlobSubset(NamesIn(fontsSub[EpOf(i)]))]
    /\ pc' = [pc EXCEPT ![i] = "done"]
    /\ UNCHANGED <<fontsSub, toUnlink, usedFonts, fontList, invoked, skipped,
                   mainDone>>
    /\ wrote' = [wrote EXCEPT ![i] =
                  @ \cup {[op |-> "write", dir |-> WorkDirPath, name |-> EncodedName(i),
                           data |-> <<>>],
                          [op |-> "write", dir |-> OutDirPath, name |-> FinalName(i),
                           data |-> <<>>]}]
    /\ UNCHANGED <<varsChars, varsFonts, varsSplit, varsEnv, varsRes>>

\* Every future has completed: main prints its last line
MainDone ==
    /\ ~mainDone
    /\ \A i \in Tasks : Ended(i)
    /\ mainDone' = TRUE
    /\ UNCHANGED <<pc, fontsSub, toUnlink, usedFonts, fontList, invoked, skipped,
                   muxSeen, attached>>
    /\ UNCHANGED wrote
    /\ UNCHANGED <<varsChars, varsFonts, varsSplit, varsEnv, varsRes>>

Next ==
    \/ \E i \in Tasks : Start(i)
    \/ \E i \in Tasks : Unlink(i)
    \/ \E i \in Tasks : UnlinkMissing(i)
    \/ \E i \in Tasks : SkipFontSubset(i)
    \/ \E i \in Tasks : Collect(i)
    \/ \E i \in Tasks : SubsetOther(i)
    \/ \E i \in Tasks : SubsetUnused(i)
    \/ \E i \in Tasks : SubsetRuns(i)
    \/ \E i \in Tasks : SubsetToolFails(i)
    \/ \E i \in Tasks : SubsetReturn(i)
    \/ \E i \in Tasks : EncodeFails(i)
    \/ \E i \in Tasks : EncodeAndMux(i)
    \/ MainDone

-----------------------------------------------------------------------------
(* subset_fonts on one pool, called twice: the second call finds the same   *)
(* font programs under other file names, so that sorted() enumerates them   *)
(* in another order.                                                        *)

\* A font program: the file without its name
Program(file) == [suffix |-> file.suffix, opens |-> file.opens, records |-> file.records]

\* The used-font names the calls are given: subsets of {"A", "B", ""}
UsedNames == {<<65>>, <<66>>, <<>>}

IdleRes ==
    /\ rs_pc = "idle" /\ rs_pool = {} /\ rs_used = {} /\ rs_fails = {}
    /\ rs_list = <<>> /\ rs_inc = {} /\ rs_exc = {} /\ rs_run = 0
    /\ rs_inc1 = {} /\ rs_exc1 = {}

InitRes ==
    /\ rs_pc = "loop" /\ rs_run = 1
    /\ rs_pool \in SUBSET SampleFonts
    /\ rs_used \in SUBSET UsedNames
    /\ rs_fails \in {{}} \cup {{Program(f)} : f \in {g \in SampleFonts : IsFontSuffix(g)}}
    /\ rs_list = SortedFiles(rs_pool)
    /\ rs_inc = {} /\ rs_exc = {} /\ rs_inc1 = {} /\ rs_exc1 = {}

\* Not a .ttf/.otf file: `continue`
ResolveOther ==
    /\ rs_pc = "loop" /\ rs_list # <<>>
    /\ ~IsFontSuffix(Head(rs_list))
    /\ rs_list' = Tail(rs_list)
    /\ UNCHANGED <<rs_pc, rs_pool, rs_used, rs_fails, rs_inc, rs_exc, rs_run, rs_inc1, rs_exc1>>
    /\ UNCHANGED <<varsChars, varsFonts, varsSplit, varsEnv, varsMain>>

\* No internal name is used: [SKIP] and `continue`
ResolveUnused ==
    /\ rs_pc = "loop" /\ rs_list # <<>>
    /\ IsFontSuffix(Head(rs_list))
    /\ ~Matches(Head(rs_list), rs_used)
    /\ rs_exc' = rs_exc \cup {Program(Head(rs_list))}
    /\ rs_list' = Tail(rs_list)
    /\ UNCHANGED <<rs_pc, rs_pool, rs_used, rs_fails, rs_inc, rs_run, rs_inc1, rs_exc1>>
    /\ UNCHANGED <<varsChars, varsFonts, varsSplit, varsEnv, varsMain>>

\* A name is used and pyftsubset returns 0
ResolveRuns ==
    /\ rs_pc = "loop" /\ rs_list # <<>>
    /\ IsFontSuffix(Head(rs_list))
    /\ Matches(Head(rs_list), rs_used)
    /\ Program(Head(rs_list)) \notin rs_fails
    /\ rs_inc' = rs_inc \cup {Program(Head(rs_list))}
    /\ rs_list' = Tail(rs_list)
    /\ UNCHANGED <<rs_pc, rs_pool, rs_used, rs_fails, rs_exc, rs_run, rs_inc1, rs_exc1>>
    /\ UNCHANGED <<varsChars, varsFonts, varsSplit, varsEnv, varsMain>>

\* A name is used and pyftsubset exits non-zero: subprocess.run(check=True)
\* raises CalledProcessError, which leaves the loop and subset_fonts
ResolveToolFails ==
    /\ rs_pc = "loop" /\ rs_list # <<>>
    /\ IsFontSuffix(Head(rs_list))
    /\ Matches(Head(rs_list), rs_used)
    /\ Program(Head(rs_list)) \in rs_fails
    /\ rs_inc' = rs_inc \cup {Program(Head(rs_list))}
    /\ rs_pc' = "raised"
    /\ UNCHANGED <<rs_pool, rs_used, rs_fails, rs_list, rs_exc, rs_run, rs_inc1, rs_exc1>>
    /\ UNCHANGED <<varsChars, varsFonts, varsSplit, varsEnv, varsMain>>

\* The loop is exhausted
ResolveReturn ==
    /\ rs_pc = "loop" /\ rs_list = <<>>
    /\ rs_pc' = "returned"
    /\ UNCHANGED <<rs_pool, rs_used, rs_fails, rs_list, rs_inc, rs_exc, rs_run, rs_inc1, rs_exc1>>
    /\ UNCHANGED <<varsChars, varsFonts, varsSplit, varsEnv, varsMain>>

\* The second call: the files of the pool have exchanged their stems
ResolveRerun ==
    /\ rs_pc \in {"returned", "raised"} /\ rs_run = 1
    /\ \E stemOf \in [rs_pool -> {f.stem : f \in rs_pool}] :
          /\ \A f, g \in rs_pool : f # g => stemOf[f] # stemOf[g]
          /\ rs_pool' = {[f EXCEPT !.stem = stemOf[f]] : f \in rs_pool}
    /\ rs_list' = SortedFiles(rs_pool')
    /\ rs_run' = 2 /\ rs_inc1' = rs_inc /\ rs_exc1' = rs_exc
    /\ rs_inc' = {} /\ rs_exc' = {} /\ rs_pc' = "loop"
    /\ UNCHANGED <<rs_used, rs_fails>>
    /\ UNCHANGED <<varsChars, varsFonts, varsSplit, varsEnv, varsMain>>

NextRes ==
    \/ ResolveOther \/ ResolveUnused \/ ResolveRuns \/ ResolveToolFails
    \/ ResolveReturn \/ ResolveRerun

-----------------------------------------------------------------------------
(* Parts of the state a specification does not use stay as they are here. *)

IdleSplit ==
    /\ sp_pc = "idle" /\ ttc = <<>> /\ sp_idx = 0 /\ sp_out = <<>> /\ sp_dir = {}
    /\ sp_nameless = <<>> /\ sp_failed = 0 /\ sp_last = <<>>

IdleMain ==
    /\ raws = <<>> /\ maxWorkers = 0 /\ noFontSubset = FALSE
    /\ assDir = {} /\ fontsDir = {}
    /\ pc = <<>> /\ fontsSub = <<>> /\ toUnlink = <<>> /\ usedFonts = <<>>
    /\ fontList = <<>> /\ invoked = <<>> /\ skipped = <<>>
    /\ muxSeen = <<>> /\ attached = <<>>
    /\ mainDone = FALSE /\ wrote = <<>>

InitChars == InitCollect /\ IdleFonts /\ IdleSplit /\ IdleMain /\ IdleRes
SpecChars == InitChars /\ [][NextChars]_vars

InitFonts == InitExtract /\ IdleChars /\ IdleSplit /\ IdleMain /\ IdleRes
SpecFonts == InitFonts /\ [][NextFonts]_vars

InitSplitter == InitSplit /\ IdleChars /\ IdleFonts /\ IdleMain /\ IdleRes
SpecSplit == InitSplitter /\ [][NextSplit]_vars

Init == InitMain /\ IdleChars /\ IdleFonts /\ IdleSplit /\ IdleRes
Spec == Init /\ [][Next]_vars

InitResolve == InitRes /\ IdleChars /\ IdleFonts /\ IdleSplit /\ IdleMain
SpecResolve == InitResolve /\ [][NextRes]_vars

-----------------------------------------------------------------------------
(* Claims *)

\* C2: the character set written by collect_chars_from_ass is exactly the
\* code points >= 0x20 that occur in the corpus united with 0x20-0x7E; so it
\* holds every code point 0x20-0x7E, none below 0x20, and is never empty.
C2_CharSetExact ==
    cc_pc = "done" =>
        /\ Range(blob) = {c \in seen : c >= 32} \cup (32..126)
        /\ \A c \in 32..126 : c \in Range(blob)
        /\ \A c \in Range(blob) : c >= 32
        /\ blob # <<>>

\* C2 witness: a corpus with a control character, DEL and an ideograph has
\* been collected and written.
C2_Witness ==
    cc_pc = "done" /\ cc_run = 1 /\ {31, 127, 20013} \subseteq seen

\* C3: the blob lists each collected code point once, in strictly ascending
\* order, and a second run over the same corpus writes the same blob.
C3_SortedDeterministic ==
    cc_pc = "done" =>
        /\ \A i \in 1..(Len(blob) - 1) : blob[i] < blob[i + 1]
        /\ Range(blob) = chars
        /\ cc_run = 2 => blob = blob1

\* C3 witness: the second run has written its blob, which holds a code point
\* from outside the ASCII range.
C3_Witness ==
    cc_pc = "done" /\ cc_run = 2 /\ Cardinality(seen) >= 3 /\ Len(blob) > 95

\* C9 as stated: the result is exactly the trimmed second field of every
\* style-declaration line together with the trimmed argument of every \fn
\* directive.
C9_AsStated ==
    ef_pc = "done" =>
        used = {Trim(f[2]) : f \in ef_styles} \cup {Trim(a) : a \in ef_args}

\* C9 amended: a style-declaration line contributes its trimmed second field
\* only when "Style:" is followed by at least one character before the first
\* comma and that comma is followed by at least one non-comma character (a
\* line terminator counts), and a \fn directive contributes its trimmed
\* argument only when the argument is not empty.
C9_ExtractExact ==
    ef_pc = "done" =>
        used = {Trim(f[2]) : f \in {g \in ef_styles : g[1] # <<>> /\ g[2] # <<>>}}
               \cup {Trim(a) : a \in ef_args \ {<<>>}}

\* C9 witness: no style line was read, an override "\fn A" and an override
\* with no argument were, and the result holds "A" (trimmed) and nothing else.
C9_Witness ==
    /\ ef_pc = "done" /\ ef_styles = {}
    /\ ef_args = {<<32, 65>>, <<>>}
    /\ used = {<<65>>}

\* C4 as stated: a container that parses and holds N embedded fonts, none of
\* which fails to serialize, yields N distinct font files, in container order.
C4_AsStated ==
    (sp_pc = "done" /\ ttc.parses /\ sp_failed = 0) =>
        /\ Len(sp_out) = ttc.n
        /\ Cardinality(Range(sp_out)) = ttc.n
        /\ Cardinality(sp_dir) = ttc.n
        /\ \A i \in 1..Len(sp_out) : [name |-> sp_out[i], font |-> i] \in sp_dir

\* C5 as stated: two embedded fonts of one container that both lack a usable
\* PostScript-name and Full-name record never get the same output path.
C5_AsStated ==
    \A i, j \in 1..Len(sp_out) :
        (i < j /\ sp_nameless[i] /\ sp_nameless[j]) => sp_out[i] # sp_out[j]


\* ---- claims about subset_fonts, process_one_episode, mux_episode, main ----

\* The font programs of the pool: the files subset_fonts does not pass over
FontPrograms == {f \in fontsDir : IsFontSuffix(f)}

\* The runs of the pool come one after another on every workspace: one
\* worker, or no two raw files with the same episode identifier.
Sequential ==
    maxWorkers = 1 \/ \A i, j \in Tasks : i # j => EpOf(i) # EpOf(j)

\* Task i has passed its clearing loop
Cleared(i) == pc[i] \in {"subset", "encode", "done", "failedSubset", "failedEncode"}

\* No later run on the workspace of task i has begun
LastOnWorkspace(i) ==
    \A j \in Tasks : (j # i /\ EpOf(j) = EpOf(i)) => (j < i /\ ~Active(j)) \/ pc[j] = "queued"

\* The name holds the subset marker, the text "subset"
HasMarker(n) ==
    \E k \in 1..Len(n) :
        k + 5 <= Len(n) /\ <<n[k], n[k + 1], n[k + 2], n[k + 3], n[k + 4], n[k + 5]>>
                             = <<115, 117, 98, 115, 101, 116>>

\* C1: once subset_fonts has ended, the subsetting tool has run for a font
\* program of the pool if and only if at least one of its internal names is
\* an exact member of the used-font-name set.
C1_AsStated ==
    \A i \in Tasks :
        (~noFontSubset /\ pc[i] \in {"encode", "done", "failedEncode", "failedSubset"}) =>
            \A f \in FontPrograms :
                f \in invoked[i] <=> (GetFontInternalNames(f) \cap usedFonts[i] # {})

\* C7: when the subsetting tool has failed for one included font, the tool
\* has still been invoked for every included font of the batch by the time
\* subset_fonts returns or raises.
C7_AsStated ==
    \A i \in Tasks :
        pc[i] = "failedSubset" =>
            \A f \in FontPrograms : Matches(f, usedFonts[i]) => f \in invoked[i]

\* C8: any two episode workers that run at the same time work on different
\* workspace directories.
C8_AsStated ==
    \A i, j \in Tasks : (i # j /\ Active(i) /\ Active(j)) => EpOf(i) # EpOf(j)

\* C6: when the runs on a workspace come one after another, a run writes
\* nothing into the workspace while it is still clearing, and once it has
\* cleared, the workspace holds only files this run wrote, each of them
\* chars.txt or the subset of a font the run subset: nothing of an earlier run.
C6_ClearedBeforeWrite ==
    Sequential =>
        \A i \in Tasks :
            /\ pc[i] = "clear" => \A f \in fontsSub[EpOf(i)] : f.by # i
            /\ pc[i] # "failedUnlink"
            /\ (Cleared(i) /\ LastOnWorkspace(i)) =>
                  \A f \in fontsSub[EpOf(i)] :
                      /\ f.by = i
                      /\ \/ f.name = CharsTxt /\ ~noFontSubset
                         \/ \E font \in invoked[i] : f.name = SubsetName(font)

\* Two runs on the workspace E01, one after the other, the first of which
\* left its chars.txt and subsets there: the second has finished.
C6_Witness ==
    /\ maxWorkers = 1 /\ Len(raws) = 2 /\ EpOf(1) = EpOf(2)
    /\ pc[1] = "done" /\ Cardinality(invoked[1]) = 2
    /\ pc[2] = "done" /\ Cardinality(invoked[2]) = 2
    /\ Cardinality(fontsSub[EpOf(2)]) = 3
    /\ \A f \in fontsSub[EpOf(2)] : f.by = 2

\* C10: every file subset_fonts writes is named by the stem of its source
\* font, the marker ".subset" and the source's suffix; mux_episode attaches
\* exactly the files of the workspace whose name holds the marker "subset",
\* so never chars.txt, and when the runs on the workspace come one after
\* another, every subset the episode's run wrote.
C10_MarkerContract ==
    /\ \A i \in Tasks : \A f \in fontsSub[EpOf(i)] :
          (f.by \in Tasks /\ f.name # CharsTxt) =>
              /\ \E font \in FontPrograms :
                    /\ f.name = font.stem \o <<46, 115, 117, 98, 115, 101, 116>> \o font.suffix
                    /\ f.data = FileName(font)
              /\ HasMarker(f.name)
    /\ \A i \in Tasks :
          pc[i] = "done" =>
              /\ attached[i] = {n \in muxSeen[i] : HasMarker(n)}
              /\ CharsTxt \notin attached[i]
              /\ Sequential =>
                    attached[i] = {font.stem \o <<46, 115, 117, 98, 115, 101, 116>> \o font.suffix :
                                     font \in invoked[i]}

\* mux_episode found chars.txt and two subsets in the workspace
C10_Witness ==
    \E i \in Tasks :
        /\ pc[i] = "done"
        /\ CharsTxt \in muxSeen[i]
        /\ Cardinality(attached[i]) = 2
        /\ Cardinality(muxSeen[i]) = 3


\* ---- claims about the pool of main ----

\* process_one_episode raised for task i
Failed(i) == pc[i] \in {"failedUnlink", "failedSubset", "failedEncode"}

\* C11: whatever episodes have raised, the pool is never stuck before main's
\* final line: an episode is running, or a queued episode can be started, or
\* main can print its final line; a queued episode whose turn it is can start
\* when its siblings have failed; and the final line comes only after every
\* submitted episode has come to its own completion or failure.
C11_SiblingsRun ==
    /\ ~mainDone =>
          \/ \E i \in Tasks : pc[i] \in {"clear", "subset", "encode"}
          \/ \E i \in Tasks : ENABLED Start(i)
          \/ ENABLED MainDone
    /\ mainDone => \A i \in Tasks : Ended(i)
    /\ \A i \in Tasks :
          (/\ pc[i] = "queued"
           /\ \A j \in 1..(i - 1) : pc[j] # "queued"
           /\ \A j \in Tasks : j # i => (Failed(j) \/ pc[j] \in {"done", "queued"}))
          => ENABLED Start(i)

\* The first episode failed in subset_fonts, the second one, started after
\* that on the only worker, completed, and main has finished
C11_Witness ==
    /\ mainDone /\ Len(raws) = 2 /\ maxWorkers = 1
    /\ pc[1] = "failedSubset" /\ pc[2] = "done"


\* ---- claims about the resolution of subset_fonts ----

\* C12: two calls of subset_fonts on the same font programs and the same
\* used-font-name set, which enumerate the pool in different orders, end with
\* the same set of included fonts and the same set of excluded fonts.
C12_AsStated ==
    (rs_run = 2 /\ rs_pc \in {"returned", "raised"}) =>
        rs_inc = rs_inc1 /\ rs_exc = rs_exc1

\* ---- claims about the names split_ttc_to_ttfs chooses ----

\* C13: the name chosen for an embedded font is its PostScript name when that
\* record is present and non-empty, else its Full name when that record is
\* present and non-empty, else the container stem followed by "_unknown"; the
\* output name is never empty.
C13_AsStated ==
    sp_last # <<>> =>
        LET font == sp_last[1].font
            want == IF font.ps.present /\ font.ps.text # <<>> THEN font.ps.text
                    ELSE IF font.full.present /\ font.full.text # <<>> THEN font.full.text
                    ELSE ttc.stem \o <<95, 117, 110, 107, 110, 111, 119, 110>>
        IN  sp_last[1].real = want /\ sp_last[1].name # <<>>

\* C14: the sanitized name has the length of the chosen name; it keeps every
\* character of [A-Za-z0-9._-] and has one underscore in the place of every
\* other character.
C14_AsStated ==
    sp_last # <<>> =>
        LET real == sp_last[1].real
            name == sp_last[1].name
        IN  /\ Len(name) = Len(real)
            /\ \A k \in 1..Len(real) :
                  k <= Len(name) /\
                  name[k] = (IF \/ real[k] \in 65..90 \/ real[k] \in 97..122
                                \/ real[k] \in 48..57 \/ real[k] \in {45, 46, 95}
                             THEN real[k] ELSE 95)

\* C15: split_ttc_to_ttfs never raises; a container that cannot be parsed
\* yields the empty list; in a container that parses, every embedded entry
\* gets its turn, whatever failed on the entries before it.
C15_AsStated ==
    /\ sp_pc # "raised"
    /\ (sp_pc = "done" /\ ~ttc.parses) => sp_out = <<>>
    /\ (sp_pc = "done" /\ ttc.parses) => sp_idx = ttc.n

\* ---- claims about get_font_internal_names ----

\* The texts of the name records of a font program that decode and are not
\* empty, over every platform, encoding and language
DecodedNames(p) ==
    IF ~p.opens THEN {}
    ELSE {r.text : r \in {q \in Range(p.records) : q.decodes /\ q.text # <<>>}}

\* C16: get_font_internal_names returns, without raising, exactly the
\* non-empty strings its font's name records decode to, a record that does
\* not decode costing no record after it; subset_fonts includes a font only
\* for one of these strings, and never a font that has none.
C16_NamesTotal ==
    /\ \A f \in rs_pool : GetFontInternalNames(f) = DecodedNames(f)
    /\ \A p \in rs_inc : DecodedNames(p) \cap rs_used # {}
    /\ \A p \in rs_exc : DecodedNames(p) \cap rs_used = {}
    /\ rs_pc = "returned" =>
          \A f \in rs_pool :
              IsFontSuffix(f) =>
                  (Program(f) \in rs_inc <=> DecodedNames(f) \cap rs_used # {})

\* B.OTF, whose first record does not decode, was included for its second
\* record "B"; X.ttf, which yields no name, was skipped; "" was a used name
C16_Witness ==
    /\ rs_pc = "returned" /\ rs_run = 1
    /\ Program(FontB) \in rs_inc
    /\ Program(FontX) \in rs_exc
    /\ <<>> \in rs_used

\* ---- claims about the files process_one_episode touches ----

\* C17 as stated: no file of the pool directory is created, changed or
\* deleted, the excluded fonts stay in the pool, and every file an episode
\* writes lies inside that episode's own workspace.
C17_AsStated ==
    /\ fontsDir = SampleFonts
    /\ \A i \in Tasks :
          /\ skipped[i] \subseteq fontsDir
          /\ \A w \in wrote[i] :
                w.op = "write" => w.dir = <<"fonts_sub", EpOf(i)>>

\* C17: no file of the pool directory is created, changed or deleted by any
\* number of concurrent episode runs, the excluded fonts stay in the pool,
\* and every file an episode unlinks or writes lies inside that episode's own
\* workspace, but for the encoded video, which it writes into WORK_DIR, and
\* the muxed output, which it writes into OUT_DIR.
C17_PoolUntouched ==
    /\ fontsDir = SampleFonts
    /\ \A i \in Tasks :
          /\ skipped[i] \subseteq fontsDir
          /\ \A w \in wrote[i] :
                /\ w.dir # <<"fonts">>
                /\ \/ w.dir = <<"fonts_sub", EpOf(i)>>
                   \/ /\ w.op = "write" /\ w.dir = <<"work">>
                      /\ w.name = raws[i] \o <<95, 101, 110, 99, 111, 100, 101, 100, 46, 109, 107, 118>>
                   \/ /\ w.op = "write" /\ w.dir = <<"out">>
                      /\ w.name = <<91>> \o EpOf(i) \o <<93, 46, 109, 107, 118>>

\* Two episodes ran at the same time, each cleared files of an earlier run,
\* skipped an unused font, wrote its blob and a subset, encoded and muxed
C17_Witness ==
    /\ Len(raws) = 2 /\ maxWorkers = 2
    /\ \A i \in Tasks :
          /\ pc[i] = "done" /\ skipped[i] # {} /\ invoked[i] # {}
          /\ \E w \in wrote[i] : w.op = "unlink"
          /\ \E w \in wrote[i] : w.op = "write" /\ w.dir = <<"out">>
          /\ \E w \in wrote[i] : w.op = "write" /\ HasMarker(w.name)

\* ---- claims about the corpus an episode is resolved against ----

\* Task i has run its glyph collection
Collected(i) == \E w \in wrote[i] : w.op = "write" /\ w.name = CharsTxt

\* The glyph blob task i wrote
BlobWritten(i) ==
    (CHOOSE w \in wrote[i] : w.op = "write" /\ w.name = CharsTxt).data

\* C18: the used-font names and the glyph blob of an episode come from every
\* line of the whole corpus; any two episodes have the same used-font names
\* and the same blob, no font is included for one and excluded for the other,
\* and two episodes whose subset_fonts returned have the same included and
\* the same excluded fonts.
C18_WholeCorpus ==
    \A i, j \in Tasks :
        (Collected(i) /\ Collected(j)) =>
            /\ usedFonts[i] = UNION {ExtractLine(assDir[k]) : k \in 1..Len(assDir)}
            /\ Range(BlobWritten(i)) =
                  {c \in UNION {Range(assDir[k]) : k \in 1..Len(assDir)} : c >= 32}
                  \cup (32..126)
            /\ usedFonts[i] = usedFonts[j]
            /\ BlobWritten(i) = BlobWritten(j)
            /\ invoked[i] \cap skipped[j] = {}
            /\ (pc[i] \in {"encode", "done", "failedEncode"}
                /\ pc[j] \in {"encode", "done", "failedEncode"}) =>
                  invoked[i] = invoked[j] /\ skipped[i] = skipped[j]

\* Episodes 01 and 02 both completed on a corpus of two lines that use "A"
\* and "B", each with the subsets of A.ttf and B.OTF
C18_Witness ==
    /\ Len(raws) = 2 /\ EpOf(1) # EpOf(2) /\ Len(assDir) = 2
    /\ pc[1] = "done" /\ pc[2] = "done"
    /\ invoked[1] = {FontA, FontB} /\ invoked[2] = {FontA, FontB}
    /\ Collected(1) /\ Collected(2)

=============================================================================
